---- MODULE Spec2Model ----
(***************************************************************************)
(* Model of main.py: discovery of 7z / ZIP archives under a directory      *)
(* (find_archives), classification and dispatch of one archive             *)
(* (test_archive) and the sequential driver (main).                        *)
(*                                                                         *)
(* A path is a sequence of one-character strings, so that the string       *)
(* operations of the code (substring test, endswith, rsplit, replace,      *)
(* lower, sorted) are computed character by character.  The file system is *)
(* a set of file paths relative to the scanned directory, which is "." ;   *)
(* directories are the proper prefixes of the file paths.  Glob matching   *)
(* and os.path.exists are those of a case-sensitive (POSIX) file system.   *)
(***************************************************************************)
EXTENDS Integers, Sequences, FiniteSets, TLC

VARIABLES fs, dirValid, cmd7z, pc, todo, archives, seen_split_bases,
          queue, passed, failed, log, exitCode

vars == <<fs, dirValid, cmd7z, pc, todo, archives, seen_split_bases,
          queue, passed, failed, log, exitCode>>

\* At most this many files are placed in the scanned tree.
MaxFiles == 3

\* range(1, 100) of test_archive and range(1, 10) of main.
ProbeStopTest == 100
ProbeStopMain == 10

----------------------------------------------------------------------------
(* String literals of the code *)

Dot7z    == <<".", "7", "z">>
Dot7zDot == <<".", "7", "z", ".">>
Dot001   == <<".", "0", "0", "1">>
DotZip   == <<".", "z", "i", "p">>
DotZ01   == <<".", "z", "0", "1">>
DotZ     == <<".", "z">>
Dot      == <<".">>
Empty    == <<>>

DigitChars == <<"0", "1", "2", "3", "4", "5", "6", "7", "8", "9">>

IsDigit(c) == \E k \in 1..10 : DigitChars[k] = c

\* f'{i:02d}' for 0 <= i <= 99
Fmt02d(i) == <<DigitChars[(i \div 10) + 1], DigitChars[(i % 10) + 1]>>

\* ord(c) for the characters that occur in the modelled file names
Ord(c) ==
    CASE c = "." -> 46 [] c = "/" -> 47
      [] c = "0" -> 48 [] c = "1" -> 49 [] c = "2" -> 50 [] c = "7" -> 55
      [] c = "A" -> 65
      [] c = "a" -> 97 [] c = "b" -> 98 [] c = "d" -> 100 [] c = "e" -> 101
      [] c = "i" -> 105 [] c = "n" -> 110 [] c = "p" -> 112
      [] c = "v" -> 118 [] c = "x" -> 120 [] c = "z" -> 122

\* str.lower() on one character
LowerChar(c) == IF c = "A" THEN "a" ELSE c

Lower(s) == [i \in 1..Len(s) |-> LowerChar(s[i])]

StartsAt(s, sub, i) ==
    /\ i >= 1
    /\ i + Len(sub) - 1 <= Len(s)
    /\ \A k \in 1..Len(sub) : s[i + k - 1] = sub[k]

\* sub in s
Contains(s, sub) == \E i \in 1..Len(s) : StartsAt(s, sub, i)

\* s.endswith(suf)
EndsWith(s, suf) == StartsAt(s, suf, Len(s) - Len(suf) + 1)

\* s.rsplit(sep, 1)[0]
RSplitHead(s, sep) ==
    LET hits == {i \in 1..Len(s) : StartsAt(s, sep, i)}
    IN  IF hits = {} THEN s
        ELSE LET last == CHOOSE i \in hits : \A j \in hits : j <= i
             IN  SubSeq(s, 1, last - 1)

\* s.replace(old, new): every occurrence, left to right, not overlapping
RECURSIVE Replace(_, _, _)
Replace(s, old, new) ==
    IF Len(s) < Len(old) THEN s
    ELSE IF StartsAt(s, old, 1)
         THEN new \o Replace(SubSeq(s, Len(old) + 1, Len(s)), old, new)
         ELSE <<Head(s)>> \o Replace(Tail(s), old, new)

\* s < t for Python strings: lexicographic on code points
RECURSIVE StrLess(_, _)
StrLess(s, t) ==
    IF t = <<>> THEN FALSE
    ELSE IF s = <<>> THEN TRUE
    ELSE IF Head(s) = Head(t) THEN StrLess(Tail(s), Tail(t))
    ELSE Ord(Head(s)) < Ord(Head(t))

\* sorted(S) for a set of strings
RECURSIVE Sorted(_)
Sorted(S) ==
    IF S = {} THEN <<>>
    ELSE LET m == CHOOSE x \in S : \A y \in S \ {x} : StrLess(x, y)
         IN  <<m>> \o Sorted(S \ {m})

----------------------------------------------------------------------------
(* The file system *)

\* File names from which the scanned tree is drawn.
Pool ==
    { <<"n", ".", "7", "z", ".", "0", "0", "1">>,
      <<"n", ".", "7", "z", ".", "0", "0", "2">>,
      <<"n", ".", "7", "z", ".", "z", "0", "1">>,
      <<"A", ".", "7", "z">>,
      <<"b", ".", "z", "i", "p">>,
      <<"b", ".", "z", "0", "1">>,
      <<"b", ".", "z", "1", "0">>,
      <<"v", ".", "7", "z", ".", "x", "/", "A", ".", "7", "z">>,
      <<"e", ".", "7", "z", "x", ".", "z", "i", "p">>,
      <<"e", ".", "7", "z", "x", ".", "z", "0", "1">>,
      <<"d", ".", "z", "i", "p", "/", "b", ".", "z", "i", "p">>,
      <<"d", ".", "z", "i", "p", "/", "b", ".", "z", "0", "1">> }

\* The directories of the tree: the prefixes of a file path that end before a "/".
Dirs(files) ==
    UNION {{SubSeq(f, 1, i - 1) : i \in {j \in 1..Len(f) : f[j] = "/"}} : f \in files}

Entries(files) == files \cup Dirs(files)

\* os.path.exists(p)
Exists(p) == p \in Entries(fs)

\* The last component of a path (what a glob pattern without "/" is matched on).
Name(p) ==
    LET slashes == {i \in 1..Len(p) : p[i] = "/"}
    IN  IF slashes = {} THEN p
        ELSE SubSeq(p, (CHOOSE i \in slashes : \A j \in slashes : j <= i) + 1, Len(p))

\* Path(directory).rglob('*.7z*')
RGlob7z == {e \in Entries(fs) : Contains(Name(e), Dot7z)}

\* Path(directory).rglob('*.zip')
RGlobZip == {e \in Entries(fs) : EndsWith(Name(e), DotZip)}

\* Path(directory).rglob('*.z[0-9][0-9]')
RGlobZVol ==
    {e \in Entries(fs) :
        LET nm == Name(e) IN
        /\ Len(nm) >= 4
        /\ SubSeq(nm, Len(nm) - 3, Len(nm) - 2) = DotZ
        /\ IsDigit(nm[Len(nm) - 1])
        /\ IsDigit(nm[Len(nm)])}

----------------------------------------------------------------------------

Init ==
    /\ fs \in {S \in SUBSET Pool : Cardinality(S) <= MaxFiles}
    /\ dirValid \in BOOLEAN
    /\ cmd7z \in {"7z", "None"}
    /\ pc = "start"
    /\ todo = {}
    /\ archives = {}
    /\ seen_split_bases = {}
    /\ queue = <<>>
    /\ passed = <<>>
    /\ failed = <<>>
    /\ log = <<>>
    /\ exitCode = -1

----------------------------------------------------------------------------
(* find_archives *)

\* '.7z.' in file_str
IsSplitVolume7z(file_str) == Contains(file_str, Dot7zDot)

\* A variant that accepts every numbered volume instead of the first one only.
IsFirstVolume_AnyNumber(file_str) == IsDigit(file_str[Len(file_str)])

\* file_str.endswith('.001')
IsFirstVolume(file_str) == EndsWith(file_str, Dot001)

\* One iteration of the loop over rglob('*.7z*'): the new (archives, seen_split_bases).
Step7z(file_str, arch, seen) ==
    IF IsSplitVolume7z(file_str)
    THEN LET base_name == RSplitHead(file_str, Dot)
         IN  IF IsFirstVolume(file_str)
             THEN [archives |-> arch \cup {file_str}, seen |-> seen \cup {base_name}]
             ELSE [archives |-> arch, seen |-> seen]
    ELSE [archives |-> arch \cup {file_str}, seen |-> seen]

\* One iteration of the loop over rglob('*.z[0-9][0-9]').
StepZVol(file_str, arch, seen) ==
    LET base_name    == RSplitHead(file_str, DotZ)
        zip_file     == base_name \o DotZip
        first_volume == base_name \o DotZ01
    IN  IF base_name \notin seen
        THEN IF Exists(zip_file)
             THEN [archives |-> arch \cup {zip_file}, seen |-> seen \cup {base_name}]
             ELSE IF Exists(first_volume)
                  THEN [archives |-> arch \cup {first_volume},
                        seen |-> seen \cup {base_name}]
                  ELSE [archives |-> arch, seen |-> seen]
        ELSE [archives |-> arch, seen |-> seen]

----------------------------------------------------------------------------
(* The external tool and the decoders *)

\* What the embedded decoder (zipfile / py7zr) does with one archive:
\* testzip() returns None, returns the name of a bad entry, raises the format
\* error (BadZipFile / Bad7zFile), or raises another exception.
DecoderOutcomes == {"ok", "bad_entry", "format_error", "other_error"}

\* What `7z t` does: exit code 0, another exit code, no exit within the timeout
\* (TimeoutExpired), or subprocess.run raises another exception.
ToolOutcomes == {"exit0", "nonzero", "timeout", "run_error"}

\* What the decoder can do with the entry at `path`: opening a directory raises
\* an OSError, which is neither BadZipFile nor Bad7zFile.
DecoderOutcomesOn(path) ==
    IF path \in Dirs(fs) THEN {"other_error"} ELSE DecoderOutcomes

\* cmd7z is what shutil.which finds: the command name, or "None" when neither
\* 7z nor 7z.exe is on the search path (7z.exe behaves as 7z does).
is_7z_available == cmd7z # "None"

get_7z_command == cmd7z

\* The return value of test_archive_with_7z when the tool behaves as `tool`.
test_archive_with_7z(tool) ==
    IF get_7z_command = "None" THEN FALSE
    ELSE tool = "exit0"

\* What test_archive_with_7z prints on stderr.
Stderr7z(tool) ==
    IF get_7z_command = "None" THEN "none"
    ELSE IF tool = "timeout" THEN "timeout"
    ELSE IF tool = "run_error" THEN "run_error"
    ELSE "none"

----------------------------------------------------------------------------
(* test_archive *)

is_multivolume_7z(archive_path) ==
    LET archive_lower == Lower(archive_path)
    IN  Contains(archive_lower, Dot7zDot) /\ EndsWith(archive_lower, Dot001)

\* base_path of test_archive
BasePath(archive_path) == Replace(Replace(archive_path, DotZip, Empty), DotZ01, Empty)

\* os.path.exists(f'{base}.z{i:02d}') for some i in range(1, stop)
ProbeVolumes(base, stop) ==
    \E e \in Entries(fs) :
        /\ Len(e) = Len(base) + 4
        /\ \E i \in 1..(stop - 1) : e = base \o DotZ \o Fmt02d(i)

is_multivolume_zip(archive_path) ==
    LET archive_lower == Lower(archive_path)
    IN  /\ EndsWith(archive_lower, DotZip) \/ EndsWith(archive_lower, DotZ01)
        /\ ProbeVolumes(BasePath(archive_path), ProbeStopTest)

\* The multi-volume branch: the external tool or nothing.
TestMultiVolume(tool) ==
    IF is_7z_available
    THEN [branch |-> "multivolume", decoder |-> "none", tool |-> tool,
          stderr |-> Stderr7z(tool), result |-> test_archive_with_7z(tool)]
    ELSE [branch |-> "multivolume", decoder |-> "none", tool |-> "none",
          stderr |-> "no_7z", result |-> FALSE]

\* A variant of the zipfile branch that never falls back to the external tool.
TestPlainZip_NoFallback(dec, tool) ==
    [branch |-> "zip", decoder |-> dec, tool |-> "none",
     stderr |-> IF dec = "other_error" THEN "zip_error" ELSE "none",
     result |-> (dec = "ok")]

\* The zipfile branch.
TestPlainZip(dec, tool) ==
    IF dec \in {"ok", "bad_entry"}
    THEN [branch |-> "zip", decoder |-> dec, tool |-> "none",
          stderr |-> "none", result |-> (dec = "ok")]
    ELSE IF is_7z_available
         THEN [branch |-> "zip", decoder |-> dec, tool |-> tool,
               stderr |-> IF dec = "other_error" THEN "zip_error" ELSE Stderr7z(tool),
               result |-> test_archive_with_7z(tool)]
         ELSE [branch |-> "zip", decoder |-> dec, tool |-> "none",
               stderr |-> IF dec = "other_error" THEN "zip_error" ELSE "none",
               result |-> FALSE]

\* The py7zr branch.
TestPlain7z(dec) ==
    [branch |-> "7z", decoder |-> dec, tool |-> "none",
     stderr |-> IF dec = "other_error" THEN "7z_error" ELSE "none",
     result |-> (dec = "ok")]

\* The branch of test_archive that archive_path takes: decided by the path and
\* the file system alone, before any decoder or tool runs.
Branch(archive_path) ==
    LET archive_lower == Lower(archive_path)
    IN  IF is_multivolume_7z(archive_path) \/ is_multivolume_zip(archive_path)
        THEN "multivolume"
        ELSE IF EndsWith(archive_lower, DotZip) THEN "zip"
        ELSE IF Contains(archive_lower, Dot7z) THEN "7z"
        ELSE "unknown"

\* What the taken branch does when the decoder would behave as `dec` and the
\* external tool as `tool`: what was invoked, the diagnostics, the return value.
Dispatch(branch, dec, tool) ==
    IF branch = "multivolume" THEN TestMultiVolume(tool)
    ELSE IF branch = "zip" THEN TestPlainZip(dec, tool)
    ELSE IF branch = "7z" THEN TestPlain7z(dec)
    ELSE [branch |-> "unknown", decoder |-> "none", tool |-> "none",
          stderr |-> "unknown_format", result |-> FALSE]

\* test_archive(archive_path)
test_archive(archive_path, dec, tool) == Dispatch(Branch(archive_path), dec, tool)

----------------------------------------------------------------------------
(* main *)

\* archive_type of main
ArchiveType(archive) ==
    LET archive_lower == Lower(archive)
    IN  IF Contains(archive_lower, Dot7zDot) /\ EndsWith(archive_lower, Dot001)
        THEN "7z multi-volume"
        ELSE IF /\ EndsWith(archive_lower, DotZip)
                /\ LET present == Entries(fs)
                   IN  \E i \in 1..(ProbeStopMain - 1) :
                           Replace(archive, DotZip, DotZ \o Fmt02d(i)) \in present
        THEN "ZIP multi-volume"
        ELSE IF EndsWith(archive_lower, DotZip) THEN "ZIP"
        ELSE IF Contains(archive_lower, Dot7z) THEN "7z"
        ELSE "unknown"

\* A variant that iterates in descending order.
SortedArchives_Descending(arch) ==
    LET up == Sorted(arch) IN [i \in 1..Len(up) |-> up[Len(up) + 1 - i]]

\* sorted(archives)
SortedArchives(arch) == Sorted(arch)

\* A variant that tolerates one failed archive.
ExitCodeOf_OffByOne(failedList) == IF Len(failedList) > 1 THEN 1 ELSE 0

\* The value main returns after the loop.
ExitCodeOf(failedList) == IF failedList # <<>> THEN 1 ELSE 0

scanVars == <<archives, seen_split_bases>>
runVars  == <<queue, passed, failed, log>>
envVars  == <<fs, dirValid, cmd7z>>

\* not os.path.isdir(args.directory): return 1
MainNotADirectory ==
    /\ pc = "start" /\ ~dirValid
    /\ pc' = "done" /\ exitCode' = 1
    /\ UNCHANGED <<envVars, todo, scanVars, runVars>>

\* find_archives is entered: the first rglob
MainScan ==
    /\ pc = "start" /\ dirValid
    /\ pc' = "scan7z" /\ todo' = RGlob7z
    /\ UNCHANGED <<envVars, scanVars, runVars, exitCode>>

Scan7z ==
    /\ pc = "scan7z"
    /\ \E file_str \in todo :
          LET r == Step7z(file_str, archives, seen_split_bases)
          IN  /\ archives' = r.archives
              /\ seen_split_bases' = r.seen
              /\ todo' = todo \ {file_str}
    /\ UNCHANGED <<envVars, pc, runVars, exitCode>>

Scan7zEnd ==
    /\ pc = "scan7z" /\ todo = {}
    /\ pc' = "scanzip" /\ todo' = RGlobZip
    /\ UNCHANGED <<envVars, scanVars, runVars, exitCode>>

ScanZip ==
    /\ pc = "scanzip"
    /\ \E file_str \in todo :
          /\ archives' = archives \cup {file_str}
          /\ todo' = todo \ {file_str}
    /\ UNCHANGED <<envVars, pc, seen_split_bases, runVars, exitCode>>

ScanZipEnd ==
    /\ pc = "scanzip" /\ todo = {}
    /\ pc' = "scanzvol" /\ todo' = RGlobZVol
    /\ UNCHANGED <<envVars, scanVars, runVars, exitCode>>

ScanZVol ==
    /\ pc = "scanzvol"
    /\ \E file_str \in todo :
          LET r == StepZVol(file_str, archives, seen_split_bases)
          IN  /\ archives' = r.archives
              /\ seen_split_bases' = r.seen
              /\ todo' = todo \ {file_str}
    /\ UNCHANGED <<envVars, pc, runVars, exitCode>>

\* find_archives returned the empty set: return 0
MainNoArchives ==
    /\ pc = "scanzvol" /\ todo = {} /\ archives = {}
    /\ pc' = "done" /\ exitCode' = 0
    /\ UNCHANGED <<envVars, todo, scanVars, runVars>>

\* find_archives returned: for archive in sorted(archives)
MainBeginVerify ==
    /\ pc = "scanzvol" /\ todo = {} /\ archives # {}
    /\ pc' = "verify" /\ queue' = SortedArchives(archives)
    /\ UNCHANGED <<envVars, todo, scanVars, passed, failed, log, exitCode>>

\* One iteration of the loop of main.
Verify ==
    /\ pc = "verify" /\ queue # <<>>
    /\ \E archive \in {Head(queue)} :
       \E tag \in {ArchiveType(archive)}, branch \in {Branch(archive)} :
       \E dec \in DecoderOutcomesOn(archive), tool \in ToolOutcomes :
             LET r == Dispatch(branch, dec, tool)   \* test_archive(archive)
             IN  /\ log' = Append(log, [path |-> archive, tag |-> tag,
                                        branch |-> r.branch, decoder |-> r.decoder,
                                        tool |-> r.tool, stderr |-> r.stderr,
                                        result |-> r.result])
                 /\ IF r.result
                    THEN passed' = Append(passed, archive) /\ failed' = failed
                    ELSE failed' = Append(failed, archive) /\ passed' = passed
    /\ queue' = Tail(queue)
    /\ UNCHANGED <<envVars, pc, todo, scanVars, exitCode>>

\* The summary and the return value.
MainFinish ==
    /\ pc = "verify" /\ queue = <<>>
    /\ pc' = "done" /\ exitCode' = ExitCodeOf(failed)
    /\ UNCHANGED <<envVars, todo, scanVars, runVars>>

Next ==
    \/ MainNotADirectory
    \/ MainScan
    \/ Scan7z
    \/ Scan7zEnd
    \/ ScanZip
    \/ ScanZipEnd
    \/ ScanZVol
    \/ MainNoArchives
    \/ MainBeginVerify
    \/ Verify
    \/ MainFinish


Spec == Init /\ [][Next]_vars

----------------------------------------------------------------------------
(* Vocabulary of the properties *)

\* find_archives has returned: `archives` is its result.
FindReturned == dirValid /\ pc \in {"verify", "done"}

Present == Entries(fs)

\* p ends in ".NNN", three digits
HasVolumeSuffix(p) ==
    /\ Len(p) >= 4
    /\ p[Len(p) - 3] = "."
    /\ IsDigit(p[Len(p) - 2]) /\ IsDigit(p[Len(p) - 1]) /\ IsDigit(p[Len(p)])

\* p ends in ".zNN", two digits
HasZipVolumeSuffix(p) ==
    /\ Len(p) >= 4
    /\ p[Len(p) - 3] = "." /\ p[Len(p) - 2] = "z"
    /\ IsDigit(p[Len(p) - 1]) /\ IsDigit(p[Len(p)])

\* p without its last four characters (".NNN", ".zNN", ".zip")
Stem(p) == SubSeq(p, 1, Len(p) - 4)

\* The volumes of a split-7z set whose first volume is on disk.
Split7zVolumes ==
    {e \in Present : /\ HasVolumeSuffix(e)
                     /\ EndsWith(Stem(e), Dot7z)
                     /\ (Stem(e) \o Dot001) \in Present}

\* The fragments of a multi-volume ZIP set whose first fragment is on disk.
ZipFragments ==
    {e \in Present : HasZipVolumeSuffix(e) /\ (Stem(e) \o DotZ01) \in Present}

Logged == {log[i] : i \in DOMAIN log}

----------------------------------------------------------------------------
(* Discovery *)

\* C1: of every split-7z set {base.001, ..., base.NNN} under the root, with base
\* ending in .7z, find_archives returns base.001 and no other volume.
C1_Split7zFirstVolumeOnly ==
    FindReturned =>
        \A e \in Split7zVolumes : (e \in archives) <=> (e = Stem(e) \o Dot001)

\* A split-7z set of two volumes has been scanned.
C1_Witness ==
    /\ FindReturned
    /\ \E e \in Split7zVolumes : e # Stem(e) \o Dot001 /\ (Stem(e) \o Dot001) \in archives

\* C2: of every multi-volume ZIP set with both base.zip and base.z01..base.zNN on
\* disk, find_archives returns base.zip and none of the .zNN fragments.
C2_ZipSetYieldsTerminalZipOnly ==
    FindReturned =>
        \A e \in ZipFragments :
            (Stem(e) \o DotZip) \in Present =>
                (Stem(e) \o DotZip) \in archives /\ e \notin archives

\* C3: of every multi-volume ZIP set with fragments only (no base.zip on disk),
\* find_archives returns base.z01 and no other fragment.
C3_ZipFragmentsYieldFirstFragment ==
    FindReturned =>
        \A e \in ZipFragments :
            (Stem(e) \o DotZip) \notin Present =>
                /\ (Stem(e) \o DotZ01) \in archives
                /\ e # Stem(e) \o DotZ01 => e \notin archives

\* C4: when every file of the tree is a plain archive (named name.7z or
\* name.zip), find_archives returns exactly the set of the files; an empty tree
\* gives the empty set.
C4_PlainArchivesReturnedUnchanged ==
    (FindReturned /\ \A f \in fs : EndsWith(Name(f), Dot7z) \/ EndsWith(Name(f), DotZip))
        => archives = fs

----------------------------------------------------------------------------
(* Verification *)

\* C5: main returns 0 exactly when the directory is valid and no archive was
\* discovered or test_archive returned True for every discovered archive, and 1
\* otherwise; a split archive whose external tool is missing gives 1.
C5_ExitCode ==
    pc = "done" =>
        /\ exitCode \in {0, 1}
        /\ (exitCode = 0) <=>
              /\ dirValid
              /\ \A a \in archives : \E e \in Logged : e.path = a /\ e.result
        /\ (\E e \in Logged : e.branch = "multivolume" /\ ~is_7z_available)
              => exitCode = 1

\* main returned 0 after verifying at least one archive.
C5_Witness == pc = "done" /\ exitCode = 0 /\ archives # {}

\* The archive was checked and found corrupted.
FoundCorrupted(e) == e.decoder = "bad_entry" \/ e.tool = "nonzero"

\* The archive is split and the external tool is unavailable.
SplitWithoutTool(e) == e.branch = "multivolume" /\ ~is_7z_available

\* C6: what the caller receives for a split archive whose external tool is
\* unavailable differs from what it receives for an archive that was checked and
\* found corrupted.
C6_UnverifiableDistinctFromInvalid ==
    \A e1 \in Logged, e2 \in Logged :
        (SplitWithoutTool(e1) /\ FoundCorrupted(e2)) => e1.result # e2.result

\* C7 as stated: a plain archive (ZIP or 7z) goes to the embedded decoder first;
\* on a format error with the external tool available the tool runs and its
\* result is returned; a split archive never reaches the embedded decoder.
C7_FallbackForBothPlainKinds ==
    \A e \in Logged :
        /\ e.branch \in {"zip", "7z"} =>
              /\ e.decoder # "none"
              /\ (e.decoder = "format_error" /\ is_7z_available) =>
                    e.tool # "none" /\ e.result = (e.tool = "exit0")
        /\ e.branch = "multivolume" => e.decoder = "none"

\* C7 amended: a plain archive goes to the embedded decoder first; for a plain
\* ZIP a format error with the external tool available runs the tool and returns
\* its result; for a plain 7z a format error returns False and the tool is not
\* run; a split archive never reaches the embedded decoder.
C7_FallbackForPlainZipOnly ==
    \A e \in Logged :
        /\ e.branch \in {"zip", "7z"} => e.decoder # "none"
        /\ (e.branch = "zip" /\ e.decoder = "format_error" /\ is_7z_available) =>
              e.tool # "none" /\ e.result = (e.tool = "exit0")
        /\ (e.branch = "7z" /\ e.decoder = "format_error") =>
              e.tool = "none" /\ e.result = FALSE
        /\ e.branch = "multivolume" => e.decoder = "none"

\* A plain ZIP fell back to the tool and passed, and a plain 7z with a format
\* error was verified while the tool was available.
C7_Witness ==
    /\ is_7z_available
    /\ \E e \in Logged : e.branch = "zip" /\ e.decoder = "format_error" /\ e.result
    /\ \E e \in Logged : e.branch = "7z" /\ e.decoder = "format_error"

\* C8: a path ending in .zip or .z01 (in any letter case) takes the multi-volume
\* branch exactly when some sibling basename.zNN, NN in 01..99, is on disk,
\* basename being the path without its final extension.
C8_SplitZipIffSiblingVolume ==
    \A e \in Logged :
        (EndsWith(Lower(e.path), DotZip) \/ EndsWith(Lower(e.path), DotZ01)) =>
            ((e.branch = "multivolume") <=>
                \E f \in Present :
                    /\ Len(f) = Len(e.path)
                    /\ \E nn \in 1..99 : f = Stem(e.path) \o DotZ \o Fmt02d(nn))

\* C9: the archives are verified one at a time in ascending path order, each
\* once, each ends in exactly one of passed and failed, and whatever the
\* outcomes every discovered archive has been verified when main returns.
C9_EveryArchiveVerifiedOnceInOrder ==
    (pc = "verify" \/ (pc = "done" /\ dirValid /\ archives # {})) =>
        /\ \A i \in DOMAIN log : log[i].path \in archives
        /\ \A i \in DOMAIN log, j \in DOMAIN log :
              i < j => StrLess(log[i].path, log[j].path)
        /\ \A a \in archives :
              (\A i \in DOMAIN log : log[i].path # a) =>
                  \A i \in DOMAIN log : StrLess(log[i].path, a)
        /\ \A i \in DOMAIN log :
              /\ log[i].result =>
                    /\ \E k \in DOMAIN passed : passed[k] = log[i].path
                    /\ \A k \in DOMAIN failed : failed[k] # log[i].path
              /\ ~log[i].result =>
                    /\ \E k \in DOMAIN failed : failed[k] = log[i].path
                    /\ \A k \in DOMAIN passed : passed[k] # log[i].path
        /\ Len(passed) + Len(failed) = Len(log)
        /\ pc = "done" => Len(log) = Cardinality(archives)

\* Three archives were verified, the first failed and the last passed.
C9_Witness ==
    /\ pc = "done" /\ Len(log) = 3
    /\ ~log[1].result /\ log[3].result

\* C10: the kind main prints agrees with the branch test_archive takes: a
\* multi-volume tag exactly on the multi-volume branch, and "unknown" only on
\* the unknown-format branch.
C10_PrintedKindMatchesDispatch ==
    \A e \in Logged :
        /\ (e.tag \in {"7z multi-volume", "ZIP multi-volume"}) <=> (e.branch = "multivolume")
        /\ e.tag = "unknown" => e.branch = "unknown"
====
